---- MODULE Spec2Model ----
(***************************************************************************)
(* Model of src/cli.rs of clevis-pin-tpm2: the TPM2Config normalizer       *)
(* (normalize, normalize_pcr_ids), the accessors get_pcr_ids and           *)
(* get_pcr_ids_str, the policy compiler (TryFrom<&TPM2Config> for          *)
(* TPMPolicyStep) and the mode selection get_mode_and_cfg.                 *)
(*                                                                         *)
(* Rust strings that the code inspects character by character (pcr_ids     *)
(* text, program arguments) are sequences of one-character strings.        *)
(* Strings the code only stores or compares as a whole are TLA+ strings.   *)
(* Option<T> is a record tagged "None" or "Some"; serde_json::Value is a   *)
(* record tagged by its variant in field t; serde_json::Number by field k. *)
(***************************************************************************)
EXTENDS Integers, Sequences, FiniteSets, TLC

(* ------------------------------ bounds -------------------------------- *)
MaxStrLen == 3       \* longest pcr_ids text enumerated character by character
MaxArrLen == 2       \* longest pcr_ids array enumerated over Elems
MaxArgs == 3         \* longest argument vector given to get_mode_and_cfg
MaxPad == 1          \* most blanks put on either side of a piece of pcr_ids text

(* --------------------------- Option<T> -------------------------------- *)
None == [tag |-> "None"]
Some(v) == [tag |-> "Some", val |-> v]
is_some(o) == o.tag = "Some"
is_none(o) == o.tag = "None"

(* ----------------------- serde_json::Value ---------------------------- *)
VString(s) == [t |-> "String", s |-> s]
VArray(a) == [t |-> "Array", a |-> a]
VNumber(n) == [t |-> "Number", n |-> n]
VBool(b) == [t |-> "Bool", b |-> b]
VNull == [t |-> "Null"]
VObject == [t |-> "Object"]

\* serde_json::Number: N::PosInt(u64), N::NegInt(i64), N::Float(f64).
\* A float is identified by the literal it was read from.
PosInt(v) == [k |-> "PosInt", v |-> v]
NegInt(v) == [k |-> "NegInt", v |-> v]
Float(txt) == [k |-> "Float", txt |-> txt]

\* Value::is_u64: true only for Number(PosInt).
is_u64(x) == x.t = "Number" /\ x.n.k = "PosInt"

(* ------------------------- string helpers ----------------------------- *)
Digits == <<"0", "1", "2", "3", "4", "5", "6", "7", "8", "9">>
DigitChars == {Digits[i] : i \in 1..10}
IsDigit(c) == c \in DigitChars
DigitVal(c) == (CHOOSE i \in 1..10 : Digits[i] = c) - 1
IsSpace(c) == c \in {" ", "\t", "\n"}

\* str::trim: drop leading and trailing whitespace.
RECURSIVE trim_start(_)
trim_start(s) ==
  IF s # <<>> /\ IsSpace(s[1]) THEN trim_start(Tail(s)) ELSE s

RECURSIVE trim_end(_)
trim_end(s) ==
  IF s # <<>> /\ IsSpace(s[Len(s)]) THEN trim_end(SubSeq(s, 1, Len(s) - 1)) ELSE s

trim(s) == trim_end(trim_start(s))

\* split with a plausible slip: the separator is a semicolon, which no
\* pcr_ids text holds, so the text stays in one piece.
split_semicolon(s) == <<s>>

\* str::split(','): the pieces between commas; the empty text has one empty piece.
RECURSIVE split(_)
split(s) ==
  IF \E i \in 1..Len(s) : s[i] = ","
  THEN LET i == CHOOSE j \in 1..Len(s) : s[j] = "," /\ \A h \in 1..(j - 1) : s[h] # ","
       IN <<SubSeq(s, 1, i - 1)>> \o split(SubSeq(s, i + 1, Len(s)))
  ELSE <<s>>

\* u64::to_string
RECURSIVE to_string(_)
to_string(n) ==
  IF n < 10 THEN <<Digits[n + 1]>>
  ELSE to_string(n \div 10) \o <<Digits[(n % 10) + 1]>>

\* [String]::join(",")
RECURSIVE join(_)
join(ss) ==
  IF ss = <<>> THEN <<>>
  ELSE IF Len(ss) = 1 THEN ss[1]
  ELSE ss[1] \o <<",">> \o join(Tail(ss))

\* str::contains
contains(s, sub) ==
  \E i \in 0..(Len(s) - Len(sub)) : SubSeq(s, i + 1, i + Len(sub)) = sub

(* ------------- str::parse::<serde_json::Number> ----------------------- *)
\* First position >= i of s that holds no digit (Len(s)+1 when none).
RECURSIVE DigitsEnd(_, _)
DigitsEnd(s, i) ==
  IF i <= Len(s) /\ IsDigit(s[i]) THEN DigitsEnd(s, i + 1) ELSE i

RECURSIVE DecVal(_)
DecVal(ds) ==
  IF ds = <<>> THEN 0
  ELSE 10 * DecVal(SubSeq(ds, 1, Len(ds) - 1)) + DigitVal(ds[Len(ds)])

ParseErr == [ok |-> FALSE]
ParseOk(n) == [ok |-> TRUE, num |-> n]

\* The JSON number grammar followed by end of input: -? (0 | [1-9][0-9]*)
\* (. [0-9]+)? ([eE] [+-]? [0-9]+)?.  An integer literal without sign is
\* PosInt, with sign NegInt, except -0 which is the float -0.0; a literal
\* with fraction or exponent is a float.  Literals are short enough here
\* that the 64-bit overflow-to-float path is not taken.
ParseNumber(s) ==
  LET n == Len(s)
      neg == n > 0 /\ s[1] = "-"
      start == IF neg THEN 2 ELSE 1
  IN IF start > n \/ ~IsDigit(s[start]) THEN ParseErr
     ELSE
       LET intEnd == IF s[start] = "0" THEN start + 1 ELSE DigitsEnd(s, start)
           leadingZero == s[start] = "0" /\ intEnd <= n /\ IsDigit(s[intEnd])
           hasFrac == intEnd <= n /\ s[intEnd] = "."
           fracEnd == IF hasFrac THEN DigitsEnd(s, intEnd + 1) ELSE intEnd
           badFrac == hasFrac /\ fracEnd = intEnd + 1
           hasExp == fracEnd <= n /\ s[fracEnd] \in {"e", "E"}
           expStart == IF hasExp /\ fracEnd + 1 <= n /\ s[fracEnd + 1] \in {"+", "-"}
                       THEN fracEnd + 2 ELSE fracEnd + 1
           expEnd == IF hasExp THEN DigitsEnd(s, expStart) ELSE fracEnd
           badExp == hasExp /\ expEnd = expStart
           val == DecVal(SubSeq(s, start, intEnd - 1))
       IN IF leadingZero \/ badFrac \/ badExp \/ expEnd # n + 1 THEN ParseErr
          ELSE IF hasFrac \/ hasExp THEN ParseOk(Float(s))
          ELSE IF ~neg THEN ParseOk(PosInt(val))
          ELSE IF val = 0 THEN ParseOk(Float(s))
          ELSE ParseOk(NegInt(0 - val))

(* ------------------------- TPM2Config ---------------------------------- *)
DEFAULT_POLICY_PATH == "/boot/clevis_policy.json"
DEFAULT_PUBKEY_PATH == "/boot/clevis_pubkey.json"
DEFAULT_POLICY_REF == ""

Ok(c) == [ok |-> TRUE, cfg |-> c]
Err(msg) == [ok |-> FALSE, err |-> msg]

\* normalize_pcr_ids, first rewrite: an array holding one string becomes that string.
CollapseSingle(p) ==
  IF is_some(p) /\ p.val.t = "Array" /\ Len(p.val.a) = 1 /\ p.val.a[1].t = "String"
  THEN Some(VString(p.val.a[1].s))
  ELSE p

\* normalize_pcr_ids, second rewrite: a string becomes the array of its trimmed pieces.
SplitText(p) ==
  IF is_some(p) /\ p.val.t = "String"
  THEN LET pieces == split(p.val.s)
       IN Some(VArray([i \in 1..Len(pieces) |-> VString(trim(pieces[i]))]))
  ELSE p

\* The closure's test of a parsed text with a plausible slip: is_u64 is not asked.
CheckParsed_unchecked(r) ==
  IF r.ok THEN [ok |-> TRUE, val |-> VNumber(r.num)]
  ELSE [ok |-> FALSE, err |-> "Unparseable string int"]

\* The closure's arm for text, after val.trim().parse::<serde_json::Number>().
CheckParsed(r) ==
  IF r.ok
  THEN IF ~is_u64(VNumber(r.num))
       THEN [ok |-> FALSE, err |-> "Non-positive string int"]
       ELSE [ok |-> TRUE, val |-> VNumber(r.num)]
  ELSE [ok |-> FALSE, err |-> "Unparseable string int"]

\* The closure's arm for numbers with a plausible slip: is_u64 is not asked.
CheckNumber_unchecked(n) == [ok |-> TRUE, val |-> VNumber(n)]

\* The closure's arm for numbers with a plausible slip: the arm is missing,
\* so a number falls to the last arm.
CheckNumber_missing(n) == [ok |-> FALSE, err |-> "Invalid value in pcr_ids"]

\* The closure's arm for numbers.
CheckNumber(n) ==
  IF ~is_u64(VNumber(n))
  THEN [ok |-> FALSE, err |-> "Non-positive int"]
  ELSE [ok |-> TRUE, val |-> VNumber(n)]

\* The closure mapped over the elements in the third rewrite.
MapElem(x) ==
  IF x.t = "String" THEN CheckParsed(ParseNumber(trim(x.s)))
  ELSE IF x.t = "Number" THEN CheckNumber(x.n)
  ELSE [ok |-> FALSE, err |-> "Invalid value in pcr_ids"]

\* collect() into Result<Vec<Value>, _>: the first error, or all the values.
Collect(rs) ==
  IF \E i \in 1..Len(rs) : ~rs[i].ok
  THEN LET f == CHOOSE i \in 1..Len(rs) : ~rs[i].ok /\ \A h \in 1..(i - 1) : rs[h].ok
       IN [ok |-> FALSE, err |-> rs[f].err]
  ELSE [ok |-> TRUE, val |-> Some(VArray([i \in 1..Len(rs) |-> rs[i].val]))]

\* normalize_pcr_ids, third rewrite: every element of an array becomes a number.
MapToNumbers(p) ==
  IF is_some(p) /\ p.val.t = "Array"
  THEN Collect([i \in 1..Len(p.val.a) |-> MapElem(p.val.a[i])])
  ELSE [ok |-> TRUE, val |-> p]

\* normalize_pcr_ids: the ? on the third rewrite, then the final match.
FinalMatch(c, r) ==
  IF ~r.ok THEN Err(r.err)
  ELSE IF is_none(r.val) \/ r.val.val.t = "Array"
  THEN Ok([c EXCEPT !.pcr_ids = r.val])
  ELSE Err("Invalid type")

\* TPM2Config::normalize_pcr_ids
normalize_pcr_ids(c) == FinalMatch(c, MapToNumbers(SplitText(CollapseSingle(c.pcr_ids))))

\* The bank default with a plausible slip: the test for a missing bank is left out.
BankDefault_overwrite(c) ==
  IF is_some(c.pcr_ids) THEN [c EXCEPT !.pcr_bank = Some("sha256")] ELSE c

\* normalize: the bank default.
BankDefault(c) ==
  IF is_some(c.pcr_ids) /\ is_none(c.pcr_bank)
  THEN [c EXCEPT !.pcr_bank = Some("sha256")]
  ELSE c

\* The policy defaults with a plausible slip: only the presence of use_policy is tested.
PolicyDefaults_anyflag(c) ==
  IF is_some(c.use_policy)
  THEN [c EXCEPT
         !.policy_path = IF is_none(@) THEN Some(DEFAULT_POLICY_PATH) ELSE @,
         !.policy_pubkey_path = IF is_none(@) THEN Some(DEFAULT_PUBKEY_PATH) ELSE @,
         !.policy_ref = IF is_none(@) THEN Some(DEFAULT_POLICY_REF) ELSE @]
  ELSE c

\* normalize: the defaults taken when use_policy is Some(true).
PolicyDefaults(c) ==
  IF is_some(c.use_policy) /\ c.use_policy.val
  THEN [c EXCEPT
         !.policy_path = IF is_none(@) THEN Some(DEFAULT_POLICY_PATH) ELSE @,
         !.policy_pubkey_path = IF is_none(@) THEN Some(DEFAULT_PUBKEY_PATH) ELSE @,
         !.policy_ref = IF is_none(@) THEN Some(DEFAULT_POLICY_REF) ELSE @]
  ELSE c

\* normalize: the warning printed to stderr (eprintln!).
PolicyWarning(c) ==
  ~(is_some(c.use_policy) /\ c.use_policy.val)
  /\ (is_some(c.policy_pubkey_path) \/ is_some(c.policy_path) \/ is_some(c.policy_ref))

\* The final test with a plausible slip: only a missing public key is noticed.
PartialPolicy_pubkeyonly(c) ==
  (is_some(c.policy_pubkey_path) \/ is_some(c.policy_path) \/ is_some(c.policy_ref))
  /\ is_none(c.policy_pubkey_path)

\* normalize: the condition of the final bail!.
PartialPolicy(c) ==
  (is_some(c.policy_pubkey_path) \/ is_some(c.policy_path) \/ is_some(c.policy_ref))
  /\ (is_none(c.policy_pubkey_path) \/ is_none(c.policy_path) \/ is_none(c.policy_ref))

\* normalize: the final bail! or Ok(self).
CheckPolicy(d) ==
  IF PartialPolicy(d)
  THEN Err("Not all of policy pubkey, path and ref are specified")
  ELSE Ok(d)

\* normalize: what follows self.normalize_pcr_ids()?.
AfterPcrIds(r) ==
  IF ~r.ok THEN r ELSE CheckPolicy(PolicyDefaults(BankDefault(r.cfg)))

\* TPM2Config::normalize
normalize(c) == AfterPcrIds(normalize_pcr_ids(c))

(* --------------------------- accessors --------------------------------- *)
Panic(msg) == [tag |-> "Panic", msg |-> msg]
UNWRAP_NONE == "called Option::unwrap() on a None value"
UNEXPECTED_TYPE == "Unexpected type found for pcr_ids"

\* TPM2Config::get_pcr_ids
get_pcr_ids(c) ==
  IF is_none(c.pcr_ids) THEN None
  ELSE IF c.pcr_ids.val.t = "Array"
  THEN LET a == c.pcr_ids.val.a
       IN IF \E i \in 1..Len(a) : ~is_u64(a[i]) THEN Panic(UNWRAP_NONE)
          ELSE Some([i \in 1..Len(a) |-> a[i].n.v])
  ELSE Panic(UNEXPECTED_TYPE)

\* TPM2Config::get_pcr_ids_str
get_pcr_ids_str(c) ==
  IF is_none(c.pcr_ids) THEN None
  ELSE IF c.pcr_ids.val.t = "Array"
  THEN LET a == c.pcr_ids.val.a
       IN IF \E i \in 1..Len(a) : ~is_u64(a[i]) THEN Panic(UNWRAP_NONE)
          ELSE Some(join([i \in 1..Len(a) |-> to_string(a[i].n.v)]))
  ELSE Panic(UNEXPECTED_TYPE)

(* ------------------------ policy compiler ------------------------------ *)
NoStep == [step |-> "NoStep"]
PCRs(alg, ids, next) == [step |-> "PCRs", alg |-> alg, ids |-> ids, next |-> next]
Or(branches) == [step |-> "Or", branches |-> branches]

\* crate::utils::get_hash_alg_from_name: the looked-up algorithm is
\* identified by the name it was looked up from.
get_hash_alg_from_name(name) == [alg_of |-> name]

\* TPM2Config::get_pcr_hash_alg
get_pcr_hash_alg(c) == get_hash_alg_from_name(c.pcr_bank)

\* TPM2Config::get_name_hash_alg
get_name_hash_alg(c) == get_hash_alg_from_name(c.hash)

\* crate::utils::get_authorized_policy_step: an opaque step built from its
\* three arguments, or a failure (ctorOk says which).
get_authorized_policy_step(pubkey_path, key_hint, policy_ref, ctorOk) ==
  IF ctorOk
  THEN [ok |-> TRUE,
        val |-> [step |-> "Authorized", pubkey_path |-> pubkey_path,
                 key_hint |-> key_hint, policy_ref |-> policy_ref]]
  ELSE [ok |-> FALSE, err |-> "get_authorized_policy_step failed"]

\* The arguments try_from passes to the constructor.
CtorCall(c) ==
  [pubkey_path |-> c.policy_pubkey_path.val, key_hint |-> None, policy_ref |-> c.policy_ref]

\* get_authorized_policy_step(cfg.policy_pubkey_path.as_ref().unwrap(), &None, &cfg.policy_ref)
Authorized(c, ctorOk) ==
  get_authorized_policy_step(c.policy_pubkey_path.val, None, c.policy_ref, ctorOk)

\* TPMPolicyStep::PCRs(cfg.get_pcr_hash_alg(), cfg.get_pcr_ids().unwrap(), NoStep)
PcrStep(c, got) == PCRs(get_pcr_hash_alg(c), got.val, NoStep)

\* Option::unwrap on what get_pcr_ids returned: the panic it ends in, if any.
UnwrapPanics(got) == got.tag \in {"Panic", "None"}
UnwrapPanic(got) == Panic(IF got.tag = "Panic" THEN got.msg ELSE UNWRAP_NONE)

\* try_from, first branch: the Or of the PCR step and the constructed step.
BothRow(c, got, a) ==
  IF UnwrapPanics(got) THEN [res |-> UnwrapPanic(got), calls |-> <<>>]
  ELSE IF ~a.ok THEN [res |-> [tag |-> "Err", err |-> a.err], calls |-> <<CtorCall(c)>>]
  ELSE [res |-> [tag |-> "Ok",
                 val |-> Or(<<PcrStep(c, got), a.val, NoStep, NoStep, NoStep, NoStep,
                              NoStep, NoStep>>)],
        calls |-> <<CtorCall(c)>>]

\* try_from, second branch: the PCR step alone.
PcrRow(c, got) ==
  IF UnwrapPanics(got) THEN [res |-> UnwrapPanic(got), calls |-> <<>>]
  ELSE [res |-> [tag |-> "Ok", val |-> PcrStep(c, got)], calls |-> <<>>]

\* try_from, third branch: the constructor's result as it is.
PubkeyRow(c, a) ==
  [res |-> IF a.ok THEN [tag |-> "Ok", val |-> a.val] ELSE [tag |-> "Err", err |-> a.err],
   calls |-> <<CtorCall(c)>>]

\* try_from with a plausible slip: the branch for both criteria is missing and
\* the public key is asked first.
try_from_misordered(c, ctorOk) ==
  IF is_some(c.policy_pubkey_path) THEN PubkeyRow(c, Authorized(c, ctorOk))
  ELSE IF is_some(c.pcr_ids) THEN PcrRow(c, get_pcr_ids(c))
  ELSE [res |-> [tag |-> "Ok", val |-> NoStep], calls |-> <<>>]

\* impl TryFrom<&TPM2Config> for TPMPolicyStep: the Result (or panic) and the
\* calls made to the constructor.
try_from(c, ctorOk) ==
  IF is_some(c.pcr_ids) /\ is_some(c.policy_pubkey_path)
  THEN BothRow(c, get_pcr_ids(c), Authorized(c, ctorOk))
  ELSE IF is_some(c.pcr_ids) THEN PcrRow(c, get_pcr_ids(c))
  ELSE IF is_some(c.policy_pubkey_path) THEN PubkeyRow(c, Authorized(c, ctorOk))
  ELSE [res |-> [tag |-> "Ok", val |-> NoStep], calls |-> <<>>]

(* ------------------------ get_mode_and_cfg ------------------------------ *)
\* A process argument: plain text, or the text of a JSON object that
\* serde_json reads as the TPM2Config doc.
Word(text) == [k |-> "word", text |-> text]
Json(doc) == [k |-> "json", doc |-> doc]

SUMMARY_FLAG == <<"-", "-", "s", "u", "m", "m", "a", "r", "y">>
HELP_FLAG == <<"-", "-", "h", "e", "l", "p">>
ENCRYPT == <<"e", "n", "c", "r", "y", "p", "t">>
DECRYPT == <<"d", "e", "c", "r", "y", "p", "t">>

\* String == &str
ArgEq(a, w) == a.k = "word" /\ a.text = w

\* String::contains
ArgContains(a, w) == a.k = "word" /\ contains(a.text, w)

\* serde_json::from_str::<TPM2Config>: only the text of a JSON object is read.
from_str(a) == IF a.k = "json" THEN Ok(a.doc) ELSE Err("serde_json error")

Outcome(tag, mode, c, err, deserialized, normalized) ==
  [tag |-> tag, mode |-> mode, cfg |-> c, err |-> err,
   deserialized |-> deserialized, normalized |-> normalized]

\* get_mode_and_cfg: the ? on normalize().
AfterNormalizeCall(mode, r) ==
  IF ~r.ok THEN Outcome("Err", "", None, r.err, 1, 1)
  ELSE Outcome("Ok", mode, Some(r.cfg), "", 1, 1)

\* get_mode_and_cfg: the ? on serde_json::from_str, then normalize().
AfterFromStr(mode, d) ==
  IF ~d.ok THEN Outcome("Err", "", None, d.err, 1, 0)
  ELSE AfterNormalizeCall(mode, normalize(d.cfg))

\* The tail of get_mode_and_cfg: deserialize and normalize the selected argument.
ParseCfg(mode, cfgstr) ==
  IF is_none(cfgstr) THEN Outcome("Ok", mode, None, "", 0, 0)
  ELSE AfterFromStr(mode, from_str(cfgstr.val))

LateTty(tty, o) ==
  IF tty /\ o.tag = "Ok"
  THEN Outcome("Ok", "Help", None, "", o.deserialized, o.normalized)
  ELSE o

\* get_mode_and_cfg with a plausible slip: the terminal test comes after the
\* configuration has been read.
get_mode_and_cfg_latetty(args, tty) ==
  IF Len(args) > 1 /\ ArgEq(args[2], SUMMARY_FLAG)
  THEN Outcome("Ok", "Summary", None, "", 0, 0)
  ELSE IF Len(args) > 1 /\ ArgEq(args[2], HELP_FLAG)
  THEN Outcome("Ok", "Help", None, "", 0, 0)
  ELSE LateTty(tty,
         IF ArgContains(args[1], ENCRYPT) /\ Len(args) >= 2
         THEN ParseCfg("Encrypt", Some(args[2]))
         ELSE IF ArgContains(args[1], DECRYPT)
         THEN ParseCfg("Decrypt", None)
         ELSE IF Len(args) > 1
         THEN IF ArgEq(args[2], ENCRYPT) /\ Len(args) >= 3
              THEN ParseCfg("Encrypt", Some(args[3]))
              ELSE IF ArgEq(args[2], DECRYPT)
              THEN ParseCfg("Decrypt", None)
              ELSE Outcome("Err", "", None, "No command specified", 0, 0)
         ELSE Outcome("Err", "", None, "No command specified", 0, 0))

\* get_mode_and_cfg; Rust's args[i] is args[i + 1] here.
get_mode_and_cfg(args, tty) ==
  IF Len(args) > 1 /\ ArgEq(args[2], SUMMARY_FLAG)
  THEN Outcome("Ok", "Summary", None, "", 0, 0)
  ELSE IF Len(args) > 1 /\ ArgEq(args[2], HELP_FLAG)
  THEN Outcome("Ok", "Help", None, "", 0, 0)
  ELSE IF tty
  THEN Outcome("Ok", "Help", None, "", 0, 0)
  ELSE IF ArgContains(args[1], ENCRYPT) /\ Len(args) >= 2
  THEN ParseCfg("Encrypt", Some(args[2]))
  ELSE IF ArgContains(args[1], DECRYPT)
  THEN ParseCfg("Decrypt", None)
  ELSE IF Len(args) > 1
  THEN IF ArgEq(args[2], ENCRYPT) /\ Len(args) >= 3
       THEN ParseCfg("Encrypt", Some(args[3]))
       ELSE IF ArgEq(args[2], DECRYPT)
       THEN ParseCfg("Decrypt", None)
       ELSE Outcome("Err", "", None, "No command specified", 0, 0)
  ELSE Outcome("Err", "", None, "No command specified", 0, 0)

(* ---------------------------- inputs ------------------------------------ *)
\* Characters of the pcr_ids texts that are enumerated exhaustively.
TextChars == {"0", "1", "7", ",", " ", "-", ".", "x"}
Texts == UNION {[1..n -> TextChars] : n \in 0..MaxStrLen}

\* Texts that occur as elements of longer arrays.
ElemTexts ==
  {<<"7">>, <<" ", "1">>, <<"-", "1">>, <<"x">>, <<>>, <<"0", "7">>,
   <<"1", ".", "5">>, <<"1", ",", "7">>}

\* Elements of a JSON array: text, numbers of the three kinds, and other shapes.
Elems ==
  {VString(s) : s \in ElemTexts}
  \cup {VNumber(PosInt(v)) : v \in {0, 1, 7}}
  \cup {VNumber(NegInt(0 - 1)), VNumber(Float(<<"1", ".", "5">>)),
        VBool(TRUE), VNull, VArray(<<>>)}

Arrays == UNION {[1..n -> Elems] : n \in 0..MaxArrLen}

\* What serde_json can put into pcr_ids (a JSON null reads as None).
PcrInputs ==
  {None}
  \cup {Some(VString(s)) : s \in Texts}
  \cup {Some(VArray(<<VString(s)>>)) : s \in Texts}
  \cup {Some(VArray(a)) : a \in Arrays}
  \cup {Some(VNumber(PosInt(7))), Some(VNumber(NegInt(0 - 1))), Some(VBool(TRUE)),
        Some(VObject)}

Configs ==
  [hash : {Some("sha1")}, key : {None}, pcr_bank : {None, Some("sha1")},
   pcr_ids : PcrInputs, pcr_digest : {Some("digest")},
   use_policy : {None, Some(FALSE), Some(TRUE)},
   policy_pubkey_path : {None, Some("/etc/pubkey.json")},
   policy_ref : {None, Some("ref")},
   policy_path : {None, Some("/etc/policy.json")}]

EmptyConfig ==
  [hash |-> None, key |-> None, pcr_bank |-> None, pcr_ids |-> None,
   pcr_digest |-> None, use_policy |-> None, policy_pubkey_path |-> None,
   policy_ref |-> None, policy_path |-> None]

\* Configurations passed on the command line.
CliConfigs ==
  {EmptyConfig,
   [EmptyConfig EXCEPT !.pcr_ids = Some(VString(<<"1", ",", "7">>))],
   [EmptyConfig EXCEPT !.pcr_ids = Some(VString(<<"x">>))],
   [EmptyConfig EXCEPT !.policy_ref = Some("ref")]}

ProgNames ==
  {Word(<<"c", "l", "e", "v", "i", "s", "-", "p", "i", "n", "-", "t", "p", "m", "2">>), Word(<<"c", "l", "e", "v", "i", "s", "-", "e", "n", "c", "r", "y", "p", "t", "-", "t", "p", "m", "2", "p", "l", "u", "s">>), Word(<<"c", "l", "e", "v", "i", "s", "-", "d", "e", "c", "r", "y", "p", "t", "-", "t", "p", "m", "2", "p", "l", "u", "s">>)}

ArgWords ==
  {Word(SUMMARY_FLAG), Word(HELP_FLAG), Word(ENCRYPT), Word(DECRYPT), Word(<<"{">>)}
  \cup {Json(c) : c \in CliConfigs}

ArgLists ==
  {<<p>> \o t : p \in ProgNames, t \in UNION {[1..n -> ArgWords] : n \in 0..(MaxArgs - 1)}}

(* -------------------------- state machine ------------------------------- *)
VARIABLES
  pc,        \* "raw", "normalized", "failed", "renormalized", "compiled", "read",
             \* "start", "returned"
  input,     \* the TPM2Config handed to normalize
  ids_res,   \* what normalize_pcr_ids returned inside normalize
  norm,      \* what normalize returned
  again,     \* what normalize returned on its own result
  ctorOk,    \* whether get_authorized_policy_step succeeds in this run
  comp,      \* what try_from returned, and the constructor calls it made
  ids,       \* what get_pcr_ids returned
  ids_str,   \* what get_pcr_ids_str returned
  args,      \* the argument vector of get_mode_and_cfg
  tty,       \* stdin().is_terminal()
  out,       \* what get_mode_and_cfg returned
  pcr_list   \* the list of indices the input pcr_ids was written from (SpecShapes)

vars == <<pc, input, ids_res, norm, again, ctorOk, comp, ids, ids_str, args, tty, out,
          pcr_list>>

Unset == [tag |-> "Unset"]

Init ==
  /\ pc = "raw"
  /\ input \in Configs
  /\ ids_res = Unset /\ norm = Unset /\ again = Unset /\ comp = Unset
  /\ ctorOk = FALSE
  /\ ids = Unset /\ ids_str = Unset
  /\ args = <<>> /\ tty = FALSE /\ out = Unset
  /\ pcr_list = <<>>

\* normalize(input)
Normalize ==
  /\ pc = "raw"
  /\ ids_res' = normalize_pcr_ids(input)
  /\ norm' = AfterPcrIds(ids_res')
  /\ pc' = IF norm'.ok THEN "normalized" ELSE "failed"
  /\ UNCHANGED <<input, again, ctorOk, comp, ids, ids_str, args, tty, out, pcr_list>>

\* normalize applied to a configuration it returned
Renormalize ==
  /\ pc = "normalized"
  /\ again' = normalize(norm.cfg)
  /\ pc' = "renormalized"
  /\ UNCHANGED <<input, ids_res, norm, ctorOk, comp, ids, ids_str, args, tty, out, pcr_list>>

\* TPMPolicyStep::try_from(&cfg) on a normalized configuration
Compile ==
  /\ pc = "normalized"
  /\ \E b \in BOOLEAN :
       /\ ctorOk' = b
       /\ comp' = try_from(norm.cfg, b)
  /\ pc' = "compiled"
  /\ UNCHANGED <<input, ids_res, norm, again, ids, ids_str, args, tty, out, pcr_list>>

\* get_pcr_ids and get_pcr_ids_str on a normalized configuration
ReadPcrIds ==
  /\ pc = "normalized"
  /\ ids' = get_pcr_ids(norm.cfg)
  /\ ids_str' = get_pcr_ids_str(norm.cfg)
  /\ pc' = "read"
  /\ UNCHANGED <<input, ids_res, norm, again, ctorOk, comp, args, tty, out, pcr_list>>

Next == Normalize \/ Renormalize \/ Compile \/ ReadPcrIds

Spec == Init /\ [][Next]_vars

InitCli ==
  /\ pc = "start"
  /\ args \in ArgLists
  /\ tty \in BOOLEAN
  /\ input = EmptyConfig
  /\ ids_res = Unset /\ norm = Unset /\ again = Unset /\ comp = Unset
  /\ ctorOk = FALSE
  /\ ids = Unset /\ ids_str = Unset
  /\ out = Unset
  /\ pcr_list = <<>>

\* get_mode_and_cfg(args)
GetModeAndCfg ==
  /\ pc = "start"
  /\ out' = get_mode_and_cfg(args, tty)
  /\ pc' = "returned"
  /\ UNCHANGED <<input, ids_res, norm, again, ctorOk, comp, ids, ids_str, args, tty, pcr_list>>

NextCli == GetModeAndCfg

SpecCli == InitCli /\ [][NextCli]_vars

(* ---- the accepted shapes of a list of indices (SpecShapes) -------------- *)
PcrVals == {0, 1, 7, 12}
PcrLists == UNION {[1..n -> PcrVals] : n \in 1..MaxArrLen}

Blanks(k) == [i \in 1..k |-> " "]
PaddedPiece(v) == {Blanks(a) \o to_string(v) \o Blanks(b) : a, b \in 0..MaxPad}

RECURSIVE PaddedTexts(_)
PaddedTexts(l) ==
  IF Len(l) = 1 THEN PaddedPiece(l[1])
  ELSE {p \o <<",">> \o r : p \in PaddedPiece(l[1]), r \in PaddedTexts(Tail(l))}

NumberArray(l) == Some(VArray([i \in 1..Len(l) |-> VNumber(PosInt(l[i]))]))
StringArray(l) == Some(VArray([i \in 1..Len(l) |-> VString(to_string(l[i]))]))

ShapesOf(l) ==
  {Some(VString(s)) : s \in PaddedTexts(l)} \cup {StringArray(l), NumberArray(l)}

InitShapes ==
  /\ pc = "raw"
  /\ pcr_list \in PcrLists
  /\ \E p \in ShapesOf(pcr_list), u \in {None, Some(TRUE)} :
       input = [EmptyConfig EXCEPT !.pcr_ids = p, !.use_policy = u]
  /\ ids_res = Unset /\ norm = Unset /\ again = Unset /\ comp = Unset
  /\ ctorOk = FALSE
  /\ ids = Unset /\ ids_str = Unset
  /\ args = <<>> /\ tty = FALSE /\ out = Unset

SpecShapes == InitShapes /\ [][Next]_vars

(* ---------------------------- properties -------------------------------- *)
AfterNormalize == pc \in {"normalized", "failed", "renormalized", "compiled", "read"}
Normalized == pc \in {"normalized", "renormalized", "compiled", "read"}

\* C1: every accepted shape of a non-empty list of indices (comma-separated
\* text with blanks around the pieces, array of strings, array of numbers,
\* one-element array of a string) is normalized by normalize_pcr_ids to the
\* array of numbers of that list, in the order given and with duplicates kept.
C1_ShapesConverge ==
  AfterNormalize => ids_res.ok /\ ids_res.cfg.pcr_ids = NumberArray(pcr_list)

C1_Witness ==
  /\ pc = "normalized"
  /\ pcr_list = <<7, 1>>
  /\ input.pcr_ids = Some(VString(<<"7", ",", " ", "1">>))
  /\ ids_res.cfg.pcr_ids = Some(VArray(<<VNumber(PosInt(7)), VNumber(PosInt(1))>>))

\* A text is numeric when it is a run of digits with blanks around it.
NumericText(s) ==
  \E a, b \in 1..Len(s) :
    /\ a <= b
    /\ \A i \in 1..Len(s) : IF i \in a..b THEN IsDigit(s[i]) ELSE IsSpace(s[i])

OffendingElem(x) ==
  \/ x.t = "String" /\ ~NumericText(x.s)
  \/ x.t = "Number" /\ x.n.k # "PosInt"
  \/ x.t \notin {"String", "Number"}

\* pcr_ids holds a negative or non-integer number, a text or piece of text
\* that is not a non-negative number, an element of another shape, or is
\* itself neither text nor array.
Offending(p) ==
  /\ is_some(p)
  /\ \/ p.val.t \notin {"String", "Array"}
     \/ p.val.t = "String" /\ \E i \in 1..Len(split(p.val.s)) : ~NumericText(split(p.val.s)[i])
     \/ p.val.t = "Array" /\ \E i \in 1..Len(p.val.a) : OffendingElem(p.val.a[i])

\* C2 as stated: normalize_pcr_ids returns an error whenever pcr_ids holds an
\* offending value.
C2_Original == AfterNormalize /\ Offending(input.pcr_ids) => ~ids_res.ok

\* A one-element array holding a string is judged as that string.
Judged(p) ==
  IF is_some(p) /\ p.val.t = "Array" /\ Len(p.val.a) = 1 /\ p.val.a[1].t = "String"
  THEN Some(VString(p.val.a[1].s))
  ELSE p

\* C2 as amended: normalize_pcr_ids (and so normalize) returns an error
\* whenever pcr_ids holds an offending value, where a one-element array
\* holding a string is judged by the comma-separated pieces of that string.
C2_Amended ==
  AfterNormalize /\ Offending(Judged(input.pcr_ids)) => ~ids_res.ok /\ pc = "failed"

C2_Witness ==
  /\ pc = "failed"
  /\ input.pcr_ids = Some(VArray(<<VNumber(PosInt(7)), VNumber(NegInt(0 - 1))>>))
  /\ ids_res = Err("Non-positive int")

\* C3: after a successful normalize, pcr_ids is absent or an array whose
\* every element is a non-negative integer.
C3_CanonicalPcrIds ==
  Normalized =>
    \/ is_none(norm.cfg.pcr_ids)
    \/ /\ norm.cfg.pcr_ids.val.t = "Array"
       /\ \A i \in 1..Len(norm.cfg.pcr_ids.val.a) :
            LET x == norm.cfg.pcr_ids.val.a[i]
            IN x.t = "Number" /\ x.n.k = "PosInt" /\ x.n.v \in Nat

C3_Witness ==
  /\ pc = "normalized"
  /\ input.pcr_ids = Some(VArray(<<VString(<<" ", "1">>), VNumber(PosInt(7))>>))
  /\ norm.cfg.pcr_ids = Some(VArray(<<VNumber(PosInt(1)), VNumber(PosInt(7))>>))

\* C4: normalize is idempotent: on a configuration it returned it succeeds
\* and returns that configuration, and each rewrite of pcr_ids leaves the
\* normalized pcr_ids as it is.
C4_Idempotent ==
  pc = "renormalized" =>
    /\ again.ok
    /\ again.cfg = norm.cfg
    /\ CollapseSingle(norm.cfg.pcr_ids) = norm.cfg.pcr_ids
    /\ SplitText(norm.cfg.pcr_ids) = norm.cfg.pcr_ids
    /\ MapToNumbers(norm.cfg.pcr_ids) = [ok |-> TRUE, val |-> norm.cfg.pcr_ids]

C4_Witness ==
  /\ pc = "renormalized"
  /\ input.pcr_ids = Some(VArray(<<VString(<<"7">>)>>))
  /\ input.use_policy = Some(TRUE)
  /\ norm.cfg.pcr_ids = Some(VArray(<<VNumber(PosInt(7))>>))
  /\ again = norm

PolicyFields(c) == <<c.policy_pubkey_path, c.policy_path, c.policy_ref>>
PolicyCount(c) == Cardinality({i \in 1..3 : is_some(PolicyFields(c)[i])})
UsePolicy(c) == c.use_policy = Some(TRUE)
NOT_ALL == "Not all of policy pubkey, path and ref are specified"

\* C5: a normalized configuration has the three policy fields all present
\* or all absent; when pcr_ids is accepted and, after the use_policy
\* defaults, one or two of the three are set, normalize fails with the
\* all-or-nothing error; with use_policy absent or false, an input setting
\* one or two of them always fails.
C5_AllOrNothing ==
  /\ Normalized => PolicyCount(norm.cfg) \in {0, 3}
  /\ AfterNormalize /\ ids_res.ok /\ ~UsePolicy(input) /\ PolicyCount(input) \in {1, 2}
       => norm = Err(NOT_ALL)
  /\ AfterNormalize /\ ~UsePolicy(input) /\ PolicyCount(input) \in {1, 2} => pc = "failed"

C5_Witness ==
  /\ pc = "failed"
  /\ is_none(input.use_policy)
  /\ PolicyCount(input) = 1
  /\ ids_res.ok
  /\ norm = Err(NOT_ALL)

Defaulted(o, d) == IF is_some(o) THEN o ELSE Some(d)

\* C6: with use_policy true and pcr_ids accepted, normalize succeeds and
\* each policy field is the supplied one, or its default when not supplied;
\* with use_policy absent or false normalize changes none of the three.
C6_PolicyDefaults ==
  /\ AfterNormalize /\ ids_res.ok /\ UsePolicy(input) =>
       /\ pc # "failed"
       /\ norm.cfg.policy_path = Defaulted(input.policy_path, "/boot/clevis_policy.json")
       /\ norm.cfg.policy_pubkey_path =
            Defaulted(input.policy_pubkey_path, "/boot/clevis_pubkey.json")
       /\ norm.cfg.policy_ref = Defaulted(input.policy_ref, "")
  /\ Normalized /\ ~UsePolicy(input) => PolicyFields(norm.cfg) = PolicyFields(input)

C6_Witness ==
  /\ pc = "normalized"
  /\ UsePolicy(input)
  /\ is_none(input.policy_path) /\ is_none(input.policy_pubkey_path)
  /\ input.policy_ref = Some("ref")
  /\ norm.cfg.policy_ref = Some("ref")
  /\ norm.cfg.policy_path = Some("/boot/clevis_policy.json")

\* C7: after a successful normalize, a present pcr_ids (the empty array
\* included) with no pcr_bank in the input gives pcr_bank "sha256"; a
\* supplied pcr_bank is kept; with pcr_ids absent pcr_bank is as in the input.
C7_BankDefault ==
  Normalized =>
    /\ is_some(norm.cfg.pcr_ids) /\ is_none(input.pcr_bank)
         => norm.cfg.pcr_bank = Some("sha256")
    /\ is_some(input.pcr_bank) => norm.cfg.pcr_bank = input.pcr_bank
    /\ is_none(norm.cfg.pcr_ids) => norm.cfg.pcr_bank = input.pcr_bank

C7_Witness ==
  /\ pc = "normalized"
  /\ input.pcr_ids = Some(VArray(<<>>))
  /\ is_none(input.pcr_bank)
  /\ norm.cfg.pcr_bank = Some("sha256")

IndexList(c) == [i \in 1..Len(c.pcr_ids.val.a) |-> c.pcr_ids.val.a[i].n.v]
Constructed(c) == get_authorized_policy_step(c.policy_pubkey_path.val, None, c.policy_ref, ctorOk)
PCRMatch(c) == PCRs(get_hash_alg_from_name(c.pcr_bank), IndexList(c), NoStep)

\* C8: compiling a normalized configuration follows the decision table,
\* first match winning; the constructor is called only when
\* policy_pubkey_path is present, once, with key_hint absent, and its
\* failure is the failure of the compilation.
C8_DecisionTable ==
  pc = "compiled" =>
    LET c == norm.cfg
    IN /\ is_some(c.pcr_ids) /\ is_some(c.policy_pubkey_path) =>
            /\ comp.calls = <<[pubkey_path |-> c.policy_pubkey_path.val, key_hint |-> None,
                               policy_ref |-> c.policy_ref]>>
            /\ IF Constructed(c).ok
               THEN comp.res = [tag |-> "Ok",
                                val |-> Or(<<PCRMatch(c), Constructed(c).val, NoStep, NoStep,
                                             NoStep, NoStep, NoStep, NoStep>>)]
               ELSE comp.res = [tag |-> "Err", err |-> Constructed(c).err]
       /\ is_some(c.pcr_ids) /\ is_none(c.policy_pubkey_path) =>
            comp = [res |-> [tag |-> "Ok", val |-> PCRMatch(c)], calls |-> <<>>]
       /\ is_none(c.pcr_ids) /\ is_some(c.policy_pubkey_path) =>
            /\ comp.calls = <<[pubkey_path |-> c.policy_pubkey_path.val, key_hint |-> None,
                               policy_ref |-> c.policy_ref]>>
            /\ IF Constructed(c).ok
               THEN comp.res = [tag |-> "Ok", val |-> Constructed(c).val]
               ELSE comp.res = [tag |-> "Err", err |-> Constructed(c).err]
       /\ is_none(c.pcr_ids) /\ is_none(c.policy_pubkey_path) =>
            comp = [res |-> [tag |-> "Ok", val |-> NoStep], calls |-> <<>>]

C8_Witness ==
  /\ pc = "compiled"
  /\ ctorOk
  /\ norm.cfg.pcr_ids = Some(VArray(<<VNumber(PosInt(7)), VNumber(PosInt(1))>>))
  /\ norm.cfg.pcr_bank = Some("sha1")
  /\ comp.res.tag = "Ok"
  /\ comp.res.val.step = "Or"
  /\ Len(comp.res.val.branches) = 8

ShortCircuit ==
  \/ Len(args) > 1 /\ args[2] \in {Word(SUMMARY_FLAG), Word(HELP_FLAG)}
  \/ tty

\* C9: with --summary or --help as args[1], or stdin a terminal,
\* get_mode_and_cfg returns Summary or Help with no configuration and
\* without deserializing or normalizing anything; a configuration is
\* returned exactly when the mode is Encrypt, and then it is the normalized
\* reading of a configuration argument; Decrypt returns no configuration.
C9_ModeSelection ==
  pc = "returned" =>
    /\ ShortCircuit =>
         /\ out.tag = "Ok"
         /\ out.mode = IF Len(args) > 1 /\ args[2] = Word(SUMMARY_FLAG)
                       THEN "Summary" ELSE "Help"
         /\ is_none(out.cfg)
         /\ out.deserialized = 0 /\ out.normalized = 0
    /\ out.tag = "Ok" => (is_some(out.cfg) <=> out.mode = "Encrypt")
    /\ out.tag = "Ok" /\ out.mode = "Encrypt" =>
         \E i \in 2..Len(args) :
           /\ args[i].k = "json"
           /\ normalize(args[i].doc).ok
           /\ out.cfg = Some(normalize(args[i].doc).cfg)
    /\ out.tag = "Ok" /\ out.mode = "Decrypt" => is_none(out.cfg) /\ out.deserialized = 0
    /\ out.tag = "Err" => is_none(out.cfg)

C9_Witness ==
  /\ pc = "returned"
  /\ tty
  /\ Len(args) = 2
  /\ ArgContains(args[1], ENCRYPT)
  /\ args[2] = Json([EmptyConfig EXCEPT !.pcr_ids = Some(VString(<<"x">>))])
  /\ out.tag = "Ok" /\ out.mode = "Help" /\ out.deserialized = 0

\* C10: on a configuration returned by normalize, get_pcr_ids,
\* get_pcr_ids_str and the policy compiler never panic.
C10_NoPanic ==
  /\ pc = "compiled" => comp.res.tag # "Panic"
  /\ pc = "read" => ids.tag # "Panic" /\ ids_str.tag # "Panic"

C10_Witness ==
  /\ pc = "read"
  /\ input.pcr_ids = Some(VString(<<"7", ",", "1">>))
  /\ ids = Some(<<7, 1>>)
  /\ ids_str = Some(<<"7", ",", "1">>)

====
